---- MODULE Spec2Model ----
(***************************************************************************)
(* systemctl-tui: the action dispatch loop (src/app.rs) and the Home       *)
(* component (src/components/home.rs): UI state machine, service-action    *)
(* executor, journalctl supervisor and render debouncer.                   *)
(*                                                                         *)
(* Conventions.  An Option<T> is a sequence of length <= 1: None is <<>>,  *)
(* Some(x) is <<x>>.  A String is a sequence of one-character strings.  A  *)
(* log line is represented by the unit whose journal it was read from.     *)
(* Indices are 0-based as in the source; items[i] is written items[i+1].   *)
(***************************************************************************)
EXTENDS Integers, Sequences, FiniteSets, TLC

(* ------------------------------------------------------------------ *)
(* Bounds of the model                                                *)
(* ------------------------------------------------------------------ *)

\* key events delivered to Home::handle_key_events in one run, per scenario
MaxKeys == 2
MaxLogKeys == 2
MaxMenuKeys == 4
MaxRefreshKeys == 2
\* lines a batch fetch (journalctl --lines=500) returns at most
MaxBatch == 1
\* lines all journalctl -f processes write in one run
MaxLines == 1
\* RefreshServices results (unit listings) delivered in one run
MaxRefresh == 1
\* DebouncedRender actions put on the action queue in one run
MaxRequests == 3
\* times the user picks Start, Stop or Restart from the action menu in one run
MaxTasks == 2
\* times the interval of a spinner task ticks in one run
MaxTicks == 1
\* key events in the scenario of one service-action task and its spinner
MaxExecKeys == 2
\* key events in the scenario of failing and cancelled service actions
MaxFailKeys == 3
\* actions the background tasks send in the scenario of Home alone
MaxSent == 2
\* actions waiting in the action channel when a task or driver sends another
MaxQueue == 2
MaxQuitKeys == 3
MaxScroll == 2
MaxLatestKeys == 2
MaxOverlapKeys == 4
MaxKeepKeys == 2

(* ------------------------------------------------------------------ *)
(* Values                                                             *)
(* ------------------------------------------------------------------ *)

None == <<>>
Some(x) == <<x>>

\* unit names as the service manager reports them; listings keep this order
UnitA == <<"a", "b", ".service">>
UnitB == <<"B", ".service">>
UnitC == <<"c", ".service">>
AllUnits == <<UnitA, UnitB, UnitC>>
UnitNames == {UnitA, UnitB, UnitC}

\* the unit listings get_services() returns in this model, in the manager's order
Listings == {AllUnits, <<UnitA, UnitC>>, <<UnitB>>, <<>>}

Modes == {"Normal", "Search", "Help", "ActionMenu", "Processing", "Error"}

\* char::to_lowercase on the model's alphabet
LowerChar(c) == CASE c = "B" -> "b"
  [] c = "C" -> "c"
  [] c = "A" -> "a"
  [] OTHER -> c

\* str::to_lowercase
to_lowercase(s) == [i \in 1..Len(s) |-> LowerChar(s[i])]

\* str::contains(pattern)
contains(s, pat) == \E i \in 0..(Len(s) - Len(pat)) :
    SubSeq(s, i + 1, i + Len(pat)) = pat

\* UnitStatus::short_name: the name without its ".service" suffix
short_name(u) == IF Len(u) > 0 /\ u[Len(u)] = ".service"
  THEN SubSeq(u, 1, Len(u) - 1)
  ELSE u

\* usize::MAX, what 0usize - 1 wraps to in a release build.  The model only
\* compares it with list lengths, so the largest integer TLC has stands for it.
UsizeMax == 2147483647

\* u16 arithmetic of logs_scroll_offset
U16Max == 65535
\* u16::wrapping_sub in the place of saturating_sub
wrapping_sub(a, b) == (a - b) % (U16Max + 1)

\* u16::saturating_sub
saturating_sub(a, b) == IF a - b < 0 THEN 0 ELSE a - b
saturating_add(a, b) == IF a + b > U16Max THEN U16Max ELSE a + b
as_u16(n) == n % (U16Max + 1)
wrapping_add_u8(a, b) == (a + b) % 256

(* ------------------------------------------------------------------ *)
(* Actions (crate::action::Action)                                    *)
(* ------------------------------------------------------------------ *)

\* an Action value: its variant t, the unit it names (or <<>>) and its payload
Act(t, unit, p) == [t |-> t, unit |-> unit, p |-> p]
Render == Act("Render", None, None)
EnterMode(m) == Act("EnterMode", None, <<m>>)

SetLogs(u, logs) == Act("SetLogs", u, logs)
AppendLogLine(u, line) == Act("AppendLogLine", u, <<line>>)
SetServices(units) == Act("SetServices", None, units)
EnterError(err) == Act("EnterError", None, err)
StartService(u) == Act("StartService", u, None)
StopService(u) == Act("StopService", u, None)
RestartService(u) == Act("RestartService", u, None)
ScrollUp(n) == Act("ScrollUp", None, <<n>>)
ScrollDown(n) == Act("ScrollDown", None, <<n>>)

\* the variants App::run handles itself (app.rs 79-85); all others go to Home::dispatch
LifecycleTypes == {"Render", "DebouncedRender", "Noop", "Quit", "Suspend", "Resume", "Resize"}

(* ------------------------------------------------------------------ *)
(* StatefulList<T>: items and state (the selected index)              *)
(* ------------------------------------------------------------------ *)

\* StatefulList::selected: None on an empty list, else the item at the index
sl_selected(items, state) == IF items = <<>> THEN None
  ELSE IF state = None THEN None
  ELSE Some(items[state[1] + 1])

\* usize::saturating_sub
usize_saturating_sub(a, b) == IF a - b < 0 THEN 0 ELSE a - b

\* StatefulList::next
sl_next(items, state) == IF state # None
  THEN IF state[1] >= usize_saturating_sub(Len(items), 1) THEN Some(0) ELSE Some(state[1] + 1)
  ELSE Some(0)

\* `self.items.len() - 1` underflows in StatefulList::previous
sl_previous_underflows(items, state) == state = Some(0) /\ Len(items) = 0

\* StatefulList::previous, with the subtraction wrapping (overflow checks off)
sl_previous(items, state) == IF state # None
  THEN IF state[1] = 0
       THEN IF Len(items) = 0 THEN Some(UsizeMax) ELSE Some(Len(items) - 1)
       ELSE Some(state[1] - 1)
  ELSE Some(0)

(* ------------------------------------------------------------------ *)
(* Home: the UI state and its methods                                 *)
(*                                                                    *)
(* A method takes and returns a record w: h is the Home struct, j the *)
(* journalctl request channel behind journalctl_tx, cancelled the set *)
(* of cancellation tokens that have been signalled, sp the tasks the  *)
(* call spawned, fresh the number of service tasks spawned before the *)
(* call and panic whether the call panicked.                          *)
(* ------------------------------------------------------------------ *)

\* Home::default()
HomeDefault == [show_logger |-> FALSE, all_units |-> <<>>, items |-> <<>>, state |-> None,
    logs |-> <<>>, logs_scroll_offset |-> 0, mode |-> "Normal", input |-> <<>>,
    menu_items |-> <<>>, menu_state |-> None, cancel_token |-> None,
    spinner_tick |-> 0, error_message |-> <<>>]

\* Home::selected_service
selected_service(h) == sl_selected(h.items, h.state)

\* Home::get_logs: ask the journalctl thread for the selected unit's logs
get_logs(w) == IF sl_selected(w.h.items, w.h.state) # None
  THEN [w EXCEPT !.j = Append(@, sl_selected(w.h.items, w.h.state)[1])]
  ELSE [w EXCEPT !.h.logs = <<>>]

\* a next() that keeps the log buffer
next_keeps_logs(w) == get_logs([w EXCEPT !.h.state = sl_next(w.h.items, w.h.state),
    !.h.logs_scroll_offset = 0])

\* Home::next
next(w) == LET w1 == [w EXCEPT !.h.logs = <<>>, !.h.state = sl_next(w.h.items, w.h.state)]
  IN  [get_logs(w1) EXCEPT !.h.logs_scroll_offset = 0]

\* Home::previous; release says whether the build wraps on overflow or panics
previous(w, release) == LET w1 == [w EXCEPT !.h.logs = <<>>]
      w2 == [w1 EXCEPT !.h.state = sl_previous(w.h.items, w.h.state)]
  IN  IF sl_previous_underflows(w.h.items, w.h.state) /\ ~release
      THEN [w1 EXCEPT !.panic = TRUE]
      ELSE [get_logs(w2) EXCEPT !.h.logs_scroll_offset = 0]

\* a select that refreshes the logs whatever refresh_logs says
select_always_refreshes(w, index, refresh_logs) == LET w1 == [w EXCEPT !.h.logs = <<>>]
      w2 == [w1 EXCEPT !.h.state = index]
  IN  [get_logs(w2) EXCEPT !.h.logs_scroll_offset = 0]

\* Home::select
select(w, index, refresh_logs) == LET w1 == IF refresh_logs THEN [w EXCEPT !.h.logs = <<>>] ELSE w
      w2 == [w1 EXCEPT !.h.state = index]
  IN  IF refresh_logs THEN [get_logs(w2) EXCEPT !.h.logs_scroll_offset = 0] ELSE w2

\* Home::unselect
unselect(w) == [w EXCEPT !.h.logs = <<>>, !.h.state = None]

\* Iterator::position(|u| u.name == name): the first index, 0-based
position(items, name) == LET hits == {i \in 1..Len(items) : items[i] = name}
  IN  IF hits = {} THEN None ELSE Some((CHOOSE i \in hits : \A k \in hits : i <= k) - 1)

\* the units whose short name contains the search value, case-insensitively
matching_units(all_units, input) == LET keep(u) == contains(to_lowercase(short_name(u)), to_lowercase(input))
  IN  SelectSeq(all_units, keep)

\* a filter_statuses that forgets the previous selection
filter_statuses_first(w, previously_selected) == LET matching == matching_units(w.h.all_units, w.h.input)
      w1 == [w EXCEPT !.h.items = matching, !.h.state = None]
  IN  IF Len(matching) > 0 THEN select(w1, Some(0), TRUE) ELSE unselect(w1)

\* Home::filter_statuses
filter_statuses(w, previously_selected) == LET matching == matching_units(w.h.all_units, w.h.input)
      w1 == [w EXCEPT !.h.items = matching, !.h.state = None]
  IN  IF previously_selected # None
      THEN IF position(matching, previously_selected[1]) # None
           THEN select(w1, position(matching, previously_selected[1]), FALSE)
           ELSE select(w1, Some(0), TRUE)
      ELSE IF Len(matching) > 0
           THEN select(w1, Some(0), TRUE)
           ELSE unselect(w1)

\* Home::set_units
set_units(w, units) == filter_statuses([w EXCEPT !.h.all_units = units], selected_service(w.h))

\* a service_action that keeps a token already stored
service_action_keeps_token(w, service_name, action_name) == [w EXCEPT
    !.h.cancel_token = IF @ # None THEN @ ELSE Some(w.fresh + 1),
    !.sp = Append(@, [kind |-> "service", id |-> w.fresh + 1, unit |-> service_name, op |-> action_name])]

\* Home::service_action, called by start_service / stop_service / restart_service
\* with a fresh CancellationToken: the token is named by the number of the task
service_action(w, service_name, action_name) == [w EXCEPT
    !.h.cancel_token = Some(w.fresh + 1),
    !.sp = Append(@, [kind |-> "service", id |-> w.fresh + 1, unit |-> service_name, op |-> action_name])]

(* ------------------------------------------------------------------ *)
(* Home::handle_key_events                                            *)
(* ------------------------------------------------------------------ *)

\* a KeyEvent: its KeyCode, the character of a KeyCode::Char, and the CONTROL modifier
Key(code, ch, ctrl) == [code |-> code, ch |-> ch, ctrl |-> ctrl]
IsChar(key, c) == key.code = "Char" /\ key.ch = c

\* what handle_key_events returns: the state it left and the actions to enqueue
Handled(w, acts) == [w |-> w, acts |-> acts]

\* tui_input's Input::handle_event with the cursor at the end of the value
input_handle_event(input, key) == IF key.code = "Char" /\ ~key.ctrl THEN Append(input, key.ch)
  ELSE IF key.code = "Backspace" /\ Len(input) > 0 THEN SubSeq(input, 1, Len(input) - 1)
  ELSE input

\* Mode::Normal arm
keys_normal(w, key, release) == IF IsChar(key, "q") THEN Handled(w, <<Act("Quit", None, None)>>)
  ELSE IF key.code = "Up"
       THEN IF w.h.state = Some(0)
            THEN Handled(w, <<EnterMode("Search")>>)
            ELSE IF previous(w, release).panic
                 THEN Handled(previous(w, release), <<>>)
                 ELSE Handled(previous(w, release), <<Render>>)
  ELSE IF key.code = "Down" THEN Handled(next(w), <<Render>>)
  ELSE IF IsChar(key, "/") THEN Handled(w, <<EnterMode("Search")>>)
  ELSE IF key.code = "Enter" \/ IsChar(key, " ") THEN Handled(w, <<EnterMode("ActionMenu")>>)
  ELSE Handled(w, <<>>)

\* Mode::Search arm
keys_search(w, key, release) == IF key.code = "Esc" THEN Handled(w, <<EnterMode("Normal")>>)
  ELSE IF key.code = "Enter" THEN Handled(w, <<EnterMode("ActionMenu")>>)
  ELSE IF key.code = "Down" \/ key.code = "Tab" THEN Handled(next(w), <<EnterMode("Normal")>>)
  ELSE IF key.code = "Up"
       THEN IF previous(w, release).panic
            THEN Handled(previous(w, release), <<>>)
            ELSE Handled(previous(w, release), <<EnterMode("Normal")>>)
  ELSE LET w1 == [w EXCEPT !.h.input = input_handle_event(w.h.input, key)]
       IN  IF w.h.input # w1.h.input
           THEN Handled(filter_statuses(w1, selected_service(w1.h)), <<Render>>)
           ELSE Handled(w1, <<Render>>)

\* Mode::ActionMenu arm
keys_action_menu(w, key, release) == IF key.code = "Esc" THEN Handled(w, <<EnterMode("Normal")>>)
  ELSE IF key.code = "Down"
       THEN Handled([w EXCEPT !.h.menu_state = sl_next(w.h.menu_items, w.h.menu_state)], <<Render>>)
  ELSE IF key.code = "Up"
       THEN IF sl_previous_underflows(w.h.menu_items, w.h.menu_state) /\ ~release
            THEN Handled([w EXCEPT !.panic = TRUE], <<>>)
            ELSE Handled([w EXCEPT !.h.menu_state = sl_previous(w.h.menu_items, w.h.menu_state)], <<Render>>)
  ELSE IF key.code = "Enter" \/ IsChar(key, " ")
       THEN IF sl_selected(w.h.menu_items, w.h.menu_state) # None
            THEN Handled(w, <<sl_selected(w.h.menu_items, w.h.menu_state)[1]>>)
            ELSE Handled(w, <<EnterMode("Normal")>>)
  ELSE Handled(w, <<>>)

\* Home::handle_key_events
handle_key_events(w, key, release) == IF key.ctrl /\ (IsChar(key, "c") \/ IsChar(key, "d") \/ IsChar(key, "q"))
       THEN Handled(w, <<Act("Quit", None, None)>>)
  ELSE IF key.ctrl /\ IsChar(key, "z") THEN Handled(w, <<Act("Suspend", None, None)>>)
  ELSE IF key.ctrl /\ IsChar(key, "f") THEN Handled(w, <<EnterMode("Search")>>)
  ELSE IF key.ctrl /\ IsChar(key, "l") THEN Handled(w, <<Act("ToggleShowLogger", None, None)>>)
  ELSE IF IsChar(key, "?") \/ key.code = "F1" THEN Handled(w, <<Act("ToggleHelp", None, None), Render>>)
  ELSE IF key.code = "PageDown" THEN Handled(w, <<ScrollDown(1), Render>>)
  ELSE IF key.code = "PageUp" THEN Handled(w, <<ScrollUp(1), Render>>)
  ELSE IF key.code = "Home" THEN Handled(w, <<Act("ScrollToTop", None, None), Render>>)
  ELSE IF key.code = "End" THEN Handled(w, <<Act("ScrollToBottom", None, None), Render>>)
  ELSE IF w.h.mode = "Normal" THEN keys_normal(w, key, release)
  ELSE IF w.h.mode \in {"Help", "Error"}
       THEN IF key.code = "Esc" \/ key.code = "Enter"
            THEN Handled(w, <<EnterMode("Normal")>>)
            ELSE Handled(w, <<>>)
  ELSE IF w.h.mode = "Search" THEN keys_search(w, key, release)
  ELSE IF w.h.mode = "ActionMenu" THEN keys_action_menu(w, key, release)
  ELSE IF key.code = "Esc" THEN Handled(w, <<Act("CancelTask", None, None)>>)
  ELSE Handled(w, <<>>)

(* ------------------------------------------------------------------ *)
(* Home::dispatch                                                     *)
(* ------------------------------------------------------------------ *)

\* what dispatch returns: the state it left and the Option<Action> follow-up
Ret(w, ret) == [w |-> w, ret |-> ret]

\* an EnterMode handler that opens the action menu without a selected unit
dispatch_enter_mode_unchecked(w, mode) == IF mode = "ActionMenu"
  THEN LET selected == sl_selected(w.h.items, w.h.state)
       IN  Ret([w EXCEPT !.h.menu_items = IF selected = None THEN <<>>
                                          ELSE <<StartService(selected[1]), StopService(selected[1]),
                                                 RestartService(selected[1])>>,
                         !.h.menu_state = Some(0),
                         !.h.mode = mode], Some(Render))
  ELSE Ret([w EXCEPT !.h.mode = mode], Some(Render))

\* Action::EnterMode(mode)
dispatch_enter_mode(w, mode) == IF mode = "ActionMenu"
  THEN IF sl_selected(w.h.items, w.h.state) = None
       THEN Ret(w, None)
       ELSE LET selected == sl_selected(w.h.items, w.h.state)[1]
            IN  Ret([w EXCEPT !.h.menu_items = <<StartService(selected), StopService(selected),
                                                 RestartService(selected)>>,
                              !.h.menu_state = Some(0),
                              !.h.mode = mode], Some(Render))
  ELSE Ret([w EXCEPT !.h.mode = mode], Some(Render))

\* an EnterError handler that does not store the message
dispatch_enter_error_forgets(w, err) == Ret(w, Some(EnterMode("Error")))

\* Action::EnterError { err }
dispatch_enter_error(w, err) == Ret([w EXCEPT !.h.error_message = err], Some(EnterMode("Error")))

\* a SetLogs handler without the comparison with the selected unit
dispatch_set_logs_unguarded(w, service_name, logs) == Ret([w EXCEPT !.h.logs = logs], None)

\* Action::SetLogs { unit_name, logs }
dispatch_set_logs(w, service_name, logs) == IF sl_selected(w.h.items, w.h.state) # None
     /\ sl_selected(w.h.items, w.h.state)[1] = service_name
  THEN Ret([w EXCEPT !.h.logs = logs], None)
  ELSE Ret(w, None)

\* Action::AppendLogLine { unit_name, line }
dispatch_append_log_line(w, unit_name, line) == IF sl_selected(w.h.items, w.h.state) # None
     /\ sl_selected(w.h.items, w.h.state)[1] = unit_name
  THEN Ret([w EXCEPT !.h.logs = Append(@, line)], None)
  ELSE Ret(w, None)

\* Action::CancelTask: take the stored token, signal it, force Mode::Normal
dispatch_cancel_task(w) == LET w1 == IF w.h.cancel_token # None
                 THEN [w EXCEPT !.cancelled = @ \cup {w.h.cancel_token[1]}, !.h.cancel_token = None]
                 ELSE w
  IN  Ret([w1 EXCEPT !.h.mode = "Normal"], Some(Render))

\* Home::dispatch
dispatch(w, action) == CASE action.t = "ToggleShowLogger" -> Ret([w EXCEPT !.h.show_logger = ~@], Some(Render))
  [] action.t = "EnterMode" -> dispatch_enter_mode(w, action.p[1])
  [] action.t = "EnterError" -> dispatch_enter_error(w, action.p)
  [] action.t = "ToggleHelp" -> Ret([w EXCEPT !.h.mode = IF @ # "Help" THEN "Help" ELSE "Normal"], None)
  [] action.t = "SetLogs" -> dispatch_set_logs(w, action.unit, action.p)
  [] action.t = "AppendLogLine" -> dispatch_append_log_line(w, action.unit, action.p[1])
  [] action.t = "ScrollUp" -> Ret([w EXCEPT !.h.logs_scroll_offset = saturating_sub(@, action.p[1])], None)
  [] action.t = "ScrollDown" -> Ret([w EXCEPT !.h.logs_scroll_offset = saturating_add(@, action.p[1])], None)
  [] action.t = "ScrollToTop" -> Ret([w EXCEPT !.h.logs_scroll_offset = 0], None)
  [] action.t = "ScrollToBottom" -> Ret([w EXCEPT !.h.logs_scroll_offset = as_u16(Len(w.h.logs))], None)
  [] action.t = "StartService" -> Ret(service_action(w, action.unit, "Start"), None)
  [] action.t = "StopService" -> Ret(service_action(w, action.unit, "Stop"), None)
  [] action.t = "RestartService" -> Ret(service_action(w, action.unit, "Restart"), None)
  [] action.t = "RefreshServices" -> Ret([w EXCEPT !.sp = Append(@, [kind |-> "refresh", id |-> 0, unit |-> None, op |-> "get_services"])], None)
  [] action.t = "SetServices" -> Ret(set_units(w, action.p), Some(Render))
  [] action.t = "SpinnerTick" -> Ret([w EXCEPT !.h.spinner_tick = wrapping_add_u8(@, 1)], Some(Render))
  [] action.t = "CancelTask" -> dispatch_cancel_task(w)
  [] OTHER -> Ret(w, None)

(* ------------------------------------------------------------------ *)
(* State                                                              *)
(* ------------------------------------------------------------------ *)

VARIABLES
  home,        \* the Home struct behind Arc<Mutex<Home>>
  queue,       \* the action channel (action_tx / action_rx)
  app,         \* App: should_quit, should_suspend; done once run() returned
  journalctl,  \* the journalctl request channel (journalctl_tx / journalctl_rx)
  sup,         \* the journalctl thread: its position, unit_name and last_follow_handle
  follow,      \* the follow tasks spawned so far, by number
  deb,         \* the debounce task, its channel, the debouncing flag and the timer tasks
  svc,         \* the service-action tasks spawned so far, by number (= their token)
  cancelled,   \* the CancellationTokens that have been signalled
  refreshing,  \* the number of RefreshServices tasks awaiting get_services()
  env          \* what the environment has delivered so far, and the event task

vars == <<home, queue, app, journalctl, sup, follow, deb, svc, cancelled, refreshing, env>>

\* tx.send(action) on the unbounded channel: append at the tail
send(q, action) == Append(q, action)

\* the channel is unbounded; the model lets a sender other than the loop itself
\* send k actions only while they fit in MaxQueue
Room(k) == Len(queue) + k <= MaxQueue

\* send each action of a sequence in order
RECURSIVE send_all(_, _)
send_all(q, acts) == IF acts = <<>> THEN q
  ELSE send_all(send(q, Head(acts)), Tail(acts))

\* the Home methods' view of the state outside Home
World == [h |-> home, j |-> journalctl, cancelled |-> cancelled, sp |-> <<>>,
    fresh |-> Len(svc), panic |-> FALSE]

\* the tasks a Home method spawned start at their first statement
spawned_services(sp) == LET is_service(x) == x.kind = "service"
      new == SelectSeq(sp, is_service)
  IN  [i \in 1..Len(new) |-> [unit |-> new[i].unit, op |-> new[i].op, pc |-> "start",
                               outcome |-> "Pending", refreshes |-> 0,
                               cancel_seen |-> "no", result |-> "Pending",
                               signalled |-> FALSE, sent |-> <<>>,
                               spinner |-> [pc |-> "tick", aborted |-> FALSE, late |-> FALSE]]]

\* cancel_seen records, for each service-action task that has not yet matched its
\* result, what a dispatch of CancelTask did: signalled the task's own token
\* ("own") or not ("other")
seen_cancel(tasks, action, token) == [i \in 1..Len(tasks) |->
    IF action.t = "CancelTask" /\ tasks[i].pc \in {"start", "await"}
    THEN [tasks[i] EXCEPT !.cancel_seen = IF token = Some(i) \/ @ = "own" THEN "own" ELSE "other"]
    ELSE tasks[i]]
spawned_refreshes(sp) == LET is_refresh(x) == x.kind = "refresh"
  IN  Len(SelectSeq(sp, is_refresh))

\* the first units App::run loads before the loop starts (app.rs 59-62)
InitialListings == {AllUnits, <<UnitB>>, <<>>}

\* App::run up to the loop: Home::init, get_services, set_units
InitWorld(units) == set_units([h |-> HomeDefault, j |-> <<>>, cancelled |-> {}, sp |-> <<>>,
    fresh |-> 0, panic |-> FALSE], units)

\* the loop, the tasks and the channels before the loop's first iteration
InitTasks ==
    /\ queue = <<>>
    /\ app = [should_quit |-> FALSE, should_suspend |-> FALSE, done |-> FALSE]
    /\ sup = [pc |-> "recv", unit_name |-> None, last_follow_handle |-> None,
              dropped |-> <<>>, fetch_failed |-> FALSE]
    /\ follow = <<>>
    /\ deb = [rx |-> 0, pc |-> "recv", debouncing |-> FALSE, sleeping |-> 0, clearing |-> 0,
              burst |-> 0, burst_renders |-> 0, owed |-> FALSE]
    /\ svc = <<>>
    /\ cancelled = {}
    /\ refreshing = 0
    /\ env = [keys |-> 0, picks |-> 0, lines |-> 0, listings |-> 0, requests |-> 0, sent |-> 0,
              ticks |-> 0,
              event_alive |-> TRUE, refresh_panicked |-> FALSE]

Init == \E units \in InitialListings :
    /\ home = InitWorld(units).h
    /\ journalctl = InitWorld(units).j
    /\ InitTasks

(* ------------------------------------------------------------------ *)
(* App::run: the dispatch loop (app.rs 69-109)                        *)
(* ------------------------------------------------------------------ *)

\* the process lives until run() returns
Running == ~app.done

\* a suspend branch that sends no Resume
after_match_no_resume(q, a) == IF a.should_suspend
  THEN [q |-> send(q, Render), app |-> a]
  ELSE IF a.should_quit
       THEN [q |-> q, app |-> [a EXCEPT !.done = TRUE]]
       ELSE [q |-> q, app |-> a]

\* app.rs 93-108: after the match, the suspend branch injects Resume and Render,
\* the quit branch stops the drivers and leaves the loop
after_match(q, a) == IF a.should_suspend
  THEN [q |-> send(send(q, Act("Resume", None, None)), Render), app |-> a]
  ELSE IF a.should_quit
       THEN [q |-> q, app |-> [a EXCEPT !.done = TRUE]]
       ELSE [q |-> q, app |-> a]

\* a loop that puts the follow-up in front of the waiting actions
requeue_front(q, ret) == IF ret # None THEN <<ret[1]>> \o q ELSE q

\* where the loop puts the follow-up action Home::dispatch returned (app.rs 87-89)
requeue(q, ret) == IF ret # None THEN send(q, ret[1]) ELSE q

\* app.rs 70: the action the loop takes from the channel
recv(q) == Head(q)

\* app.rs 79-85: the variants the loop handles itself
RunLifecycle ==
    /\ Running
    /\ queue # <<>>
    /\ recv(queue).t \in LifecycleTypes
    /\ LET t == recv(queue).t
           a1 == [app EXCEPT !.should_quit = IF t = "Quit" THEN TRUE ELSE @,
                  !.should_suspend = IF t = "Suspend" THEN TRUE
                                     ELSE IF t = "Resume" THEN FALSE ELSE @]
           r == after_match(Tail(queue), a1)
       IN  /\ queue' = r.q
           /\ app' = r.app
           /\ deb' = IF t = "DebouncedRender" THEN [deb EXCEPT !.rx = @ + 1, !.owed = TRUE]
                     ELSE IF t = "Render" THEN [deb EXCEPT !.owed = FALSE]
                     ELSE deb
    /\ UNCHANGED <<home, journalctl, sup, follow, svc, cancelled, refreshing, env>>

\* app.rs 86-90: every other variant goes to Home::dispatch under the lock
RunDispatch ==
    /\ Running
    /\ queue # <<>>
    /\ recv(queue).t \notin LifecycleTypes
    /\ LET d == dispatch(World, recv(queue))
           r == after_match(requeue(Tail(queue), d.ret), app)
       IN  /\ home' = d.w.h
           /\ journalctl' = d.w.j
           /\ cancelled' = d.w.cancelled
           /\ svc' = seen_cancel(svc, recv(queue), home.cancel_token) \o spawned_services(d.w.sp)
           /\ refreshing' = refreshing + spawned_refreshes(d.w.sp)
           /\ queue' = r.q
           /\ app' = r.app
    /\ UNCHANGED <<sup, follow, deb, env>>

(* ------------------------------------------------------------------ *)
(* The event task: a key event goes to Home::handle_key_events under  *)
(* the lock and the actions it returns are sent in order              *)
(* ------------------------------------------------------------------ *)

\* the service actions among the actions a key produced
picks(acts) == LET is_pick(a) == a.t \in {"StartService", "StopService", "RestartService"}
  IN  Len(SelectSeq(acts, is_pick))

KeyEventOf(key, max) ==
    /\ Running
    /\ env.event_alive
    /\ env.keys < max
    /\ \E release \in BOOLEAN :
         LET r == handle_key_events(World, key, release)
         IN  /\ Room(Len(r.acts))
             /\ env.picks + picks(r.acts) <= MaxTasks
             /\ home' = r.w.h
             /\ journalctl' = r.w.j
             /\ queue' = send_all(queue, r.acts)
             /\ app' = app
             /\ env' = [env EXCEPT !.keys = @ + 1, !.picks = @ + picks(r.acts),
                                   !.event_alive = ~r.w.panic]
    /\ UNCHANGED <<sup, follow, deb, svc, cancelled, refreshing>>

(* ------------------------------------------------------------------ *)
(* The journalctl thread spawned by Home::init (home.rs 297-357)      *)
(* ------------------------------------------------------------------ *)

\* JoinHandle::abort: the task is cancelled at its next .await; statements it is
\* running between two awaits, on another thread, still complete
abort(tasks, handle) == [i \in 1..Len(tasks) |->
    IF i = handle THEN [tasks[i] EXCEPT !.aborted = TRUE] ELSE tasks[i]]

\* a follow task that was aborted before it could run, or that reached an .await
\* after the abort, never runs again
stopped(task) == task.aborted /\ task.pc = "await"

\* home.rs 301-304: journalctl_rx.recv()
SupRecv ==
    /\ Running
    /\ sup.pc = "recv"
    /\ journalctl # <<>>
    /\ sup' = [sup EXCEPT !.pc = "drain", !.unit_name = Some(Head(journalctl))]
    /\ journalctl' = Tail(journalctl)
    /\ UNCHANGED <<home, queue, app, follow, deb, svc, cancelled, refreshing, env>>

\* a drain that takes the newer request off the channel and keeps the older one
SupDrainKeepsFirst ==
    /\ Running
    /\ sup.pc = "drain"
    /\ journalctl # <<>>
    /\ sup' = [sup EXCEPT !.dropped = Append(@, Head(journalctl))]
    /\ journalctl' = Tail(journalctl)
    /\ UNCHANGED <<home, queue, app, follow, deb, svc, cancelled, refreshing, env>>

\* home.rs 307-310: one successful try_recv() replaces unit_name; dropped lists
\* the requests replaced in this round
SupDrain ==
    /\ Running
    /\ sup.pc = "drain"
    /\ journalctl # <<>>
    /\ sup' = [sup EXCEPT !.unit_name = Some(Head(journalctl)),
                          !.dropped = Append(@, sup.unit_name[1])]
    /\ journalctl' = Tail(journalctl)
    /\ UNCHANGED <<home, queue, app, follow, deb, svc, cancelled, refreshing, env>>

\* a supervisor that forgets the previous follow task without aborting it
SupCancelKeepsOld ==
    /\ Running
    /\ sup.pc = "drain"
    /\ journalctl = <<>>
    /\ sup' = [sup EXCEPT !.pc = "fetch", !.last_follow_handle = None]
    /\ UNCHANGED <<home, queue, app, journalctl, follow, deb, svc, cancelled, refreshing, env>>

\* home.rs 307, 312-315: try_recv() finds the channel empty; the previous follow
\* task's handle is taken and aborted
SupCancel ==
    /\ Running
    /\ sup.pc = "drain"
    /\ journalctl = <<>>
    /\ follow' = IF sup.last_follow_handle # None
                 THEN abort(follow, sup.last_follow_handle[1])
                 ELSE follow
    /\ sup' = [sup EXCEPT !.pc = "fetch", !.last_follow_handle = None]
    /\ UNCHANGED <<home, queue, app, journalctl, deb, svc, cancelled, refreshing, env>>

\* home.rs 320: the blocking batch fetch `journalctl -u unit --lines=500` starts.
\* superseded marks the follow tasks of other units that exist at this moment.
SupFetchBegin ==
    /\ Running
    /\ sup.pc = "fetch"
    /\ sup' = [sup EXCEPT !.pc = "fetching"]
    /\ follow' = [i \in 1..Len(follow) |->
                    IF follow[i].unit # sup.unit_name[1]
                    THEN [follow[i] EXCEPT !.superseded = TRUE]
                    ELSE follow[i]]
    /\ UNCHANGED <<home, queue, app, journalctl, deb, svc, cancelled, refreshing, env>>

\* home.rs 321-326: the fetch returned Ok(stdout); stdout.split("\n") is never
\* empty; SetLogs is sent
SupFetchOk ==
    /\ Running
    /\ Room(1)
    /\ sup.pc = "fetching"
    /\ \E n \in 1..MaxBatch :
         queue' = send(queue, SetLogs(sup.unit_name[1], [k \in 1..n |-> sup.unit_name[1]]))
    /\ UNCHANGED app
    /\ sup' = [sup EXCEPT !.pc = "render"]
    /\ UNCHANGED <<home, journalctl, follow, deb, svc, cancelled, refreshing, env>>

\* home.rs 326: Render is sent after SetLogs
SupRender ==
    /\ Running
    /\ Room(1)
    /\ sup.pc = "render"
    /\ queue' = send(queue, Render)
    /\ UNCHANGED app
    /\ sup' = [sup EXCEPT !.pc = "spawn"]
    /\ UNCHANGED <<home, journalctl, follow, deb, svc, cancelled, refreshing, env>>

\* a supervisor that gives up the request whose batch fetch failed
SupFetchErrGivesUp ==
    /\ Running
    /\ sup.pc = "fetching"
    /\ sup' = [sup EXCEPT !.pc = "recv", !.dropped = <<>>]
    /\ UNCHANGED <<home, queue, app, journalctl, follow, deb, svc, cancelled, refreshing, env>>

\* home.rs 328: the fetch returned Err; a warning is logged; fetch_failed marks
\* the round whose fetch failed
SupFetchErr ==
    /\ Running
    /\ sup.pc = "fetching"
    /\ sup' = [sup EXCEPT !.pc = "spawn", !.fetch_failed = TRUE]
    /\ UNCHANGED <<home, queue, app, journalctl, follow, deb, svc, cancelled, refreshing, env>>

\* home.rs 334-355: the follow task is spawned and its handle stored
SupSpawn ==
    /\ Running
    /\ sup.pc = "spawn"
    /\ follow' = Append(follow, [unit |-> sup.unit_name[1], pc |-> "await", aborted |-> FALSE,
                                 superseded |-> FALSE, late |-> FALSE])
    /\ sup' = [sup EXCEPT !.pc = "recv", !.last_follow_handle = Some(Len(follow) + 1),
                          !.dropped = <<>>, !.fetch_failed = FALSE]
    /\ UNCHANGED <<home, queue, app, journalctl, deb, svc, cancelled, refreshing, env>>

\* home.rs 351: lines.next_line().await returns a line of `journalctl -f -u unit`
FollowLine(i) ==
    /\ Running
    /\ follow[i].pc = "await"
    /\ ~follow[i].aborted
    /\ env.lines < MaxLines
    /\ follow' = [follow EXCEPT ![i].pc = "send_line"]
    /\ env' = [env EXCEPT !.lines = @ + 1]
    /\ UNCHANGED <<home, queue, app, journalctl, sup, deb, svc, cancelled, refreshing>>

\* a follow task that writes the line into the log buffer itself
FollowWritesLine(i) ==
    /\ Running
    /\ Room(1)
    /\ follow[i].pc = "send_line"
    /\ home' = [home EXCEPT !.logs = Append(@, follow[i].unit)]
    /\ queue' = send(queue, Render)
    /\ follow' = [follow EXCEPT ![i].pc = "await", ![i].late = follow[i].superseded]
    /\ UNCHANGED <<app, journalctl, sup, deb, svc, cancelled, refreshing, env>>

\* home.rs 352: AppendLogLine is sent; late records a send after the batch fetch
\* of another unit's request began
FollowSendLine(i) ==
    /\ Running
    /\ Room(1)
    /\ follow[i].pc = "send_line"
    /\ queue' = send(queue, AppendLogLine(follow[i].unit, follow[i].unit))
    /\ UNCHANGED app
    /\ follow' = [follow EXCEPT ![i].pc = "send_render", ![i].late = follow[i].superseded]
    /\ UNCHANGED <<home, journalctl, sup, deb, svc, cancelled, refreshing, env>>

\* home.rs 353: Render is sent, and the loop is back at next_line().await
FollowSendRender(i) ==
    /\ Running
    /\ Room(1)
    /\ follow[i].pc = "send_render"
    /\ queue' = send(queue, Render)
    /\ UNCHANGED app
    /\ follow' = [follow EXCEPT ![i].pc = "await"]
    /\ UNCHANGED <<home, journalctl, sup, deb, svc, cancelled, refreshing, env>>

Supervisor == SupRecv \/ SupDrain \/ SupCancel \/ SupFetchBegin \/ SupFetchOk \/ SupRender
    \/ SupFetchErr \/ SupSpawn

Follower == \E i \in 1..Len(follow) : FollowLine(i) \/ FollowSendLine(i) \/ FollowSendRender(i)

(* ------------------------------------------------------------------ *)
(* The debounce task (app.rs 31-55)                                   *)
(* ------------------------------------------------------------------ *)

\* a producer of Action::DebouncedRender (the drivers outside these files)
SendDebouncedRender ==
    /\ Running
    /\ Room(1)
    /\ env.requests < MaxRequests
    /\ queue' = send(queue, Act("DebouncedRender", None, None))
    /\ UNCHANGED app
    /\ env' = [env EXCEPT !.requests = @ + 1]
    /\ UNCHANGED <<home, journalctl, sup, follow, deb, svc, cancelled, refreshing>>

\* app.rs 39: debounce_rx.recv()
DebRecv ==
    /\ Running
    /\ deb.pc = "recv"
    /\ deb.rx > 0
    /\ deb' = [deb EXCEPT !.rx = @ - 1, !.pc = "check"]
    /\ UNCHANGED <<home, queue, app, journalctl, sup, follow, svc, cancelled, refreshing, env>>

\* a debounce task that never drops a request
debounce_drops_never(debouncing) == FALSE

\* app.rs 41: whether the request is dropped
debounce_drops(debouncing) == debouncing

\* app.rs 41-43: the flag is read; a set flag drops the request.  burst counts the
\* requests received since the one that started the timer still pending, and
\* burst_renders the Render actions sent since then.
DebCheck ==
    /\ Running
    /\ deb.pc = "check"
    /\ deb' = [deb EXCEPT !.pc = IF debounce_drops(deb.debouncing) THEN "recv" ELSE "set",
                          !.burst = IF deb.sleeping > 0 THEN @ + 1
                                    ELSE IF debounce_drops(deb.debouncing) THEN @ ELSE 1,
                          !.burst_renders = IF deb.sleeping > 0 \/ debounce_drops(deb.debouncing)
                                            THEN @ ELSE 0]
    /\ UNCHANGED <<home, queue, app, journalctl, sup, follow, svc, cancelled, refreshing, env>>

\* a debounce task that starts the timer without setting the flag
DebSetLeavesFlag ==
    /\ Running
    /\ deb.pc = "set"
    /\ deb' = [deb EXCEPT !.pc = "spawn"]
    /\ UNCHANGED <<home, queue, app, journalctl, sup, follow, svc, cancelled, refreshing, env>>

\* app.rs 45: the flag is set under a second lock
DebSet ==
    /\ Running
    /\ deb.pc = "set"
    /\ deb' = [deb EXCEPT !.pc = "spawn", !.debouncing = TRUE]
    /\ UNCHANGED <<home, queue, app, journalctl, sup, follow, svc, cancelled, refreshing, env>>

\* app.rs 47-53: the timer task is spawned and sleeps
DebSpawn ==
    /\ Running
    /\ deb.pc = "spawn"
    /\ deb' = [deb EXCEPT !.pc = "recv", !.sleeping = @ + 1]
    /\ UNCHANGED <<home, queue, app, journalctl, sup, follow, svc, cancelled, refreshing, env>>

\* app.rs 50-51: the sleep is over and the timer task sends Render
TimerExpire ==
    /\ Running
    /\ Room(1)
    /\ deb.sleeping > 0
    /\ queue' = send(queue, Render)
    /\ UNCHANGED app
    /\ deb' = [deb EXCEPT !.sleeping = @ - 1, !.clearing = @ + 1, !.burst_renders = @ + 1]
    /\ UNCHANGED <<home, journalctl, sup, follow, svc, cancelled, refreshing, env>>

\* app.rs 52: the timer task clears the flag and ends
TimerClear ==
    /\ Running
    /\ deb.clearing > 0
    /\ deb' = [deb EXCEPT !.clearing = @ - 1, !.debouncing = FALSE]
    /\ UNCHANGED <<home, queue, app, journalctl, sup, follow, svc, cancelled, refreshing, env>>

Debouncer == DebRecv \/ DebCheck \/ DebSet \/ DebSpawn \/ TimerExpire \/ TimerClear

(* ------------------------------------------------------------------ *)
(* The task Home::service_action spawns (home.rs 256-286) and the     *)
(* task of Action::RefreshServices (home.rs 544-549)                  *)
(* ------------------------------------------------------------------ *)

\* what the Service Controller's future can resolve to
Outcomes == {"Ok", "Failed", "AccessDenied"}

\* an error string without the sudo hint
error_string_plain(outcome) == <<outcome>>

\* home.rs 267-273: the error string, with the sudo hint after AccessDenied
error_string(outcome) == IF outcome = "AccessDenied"
  THEN <<"AccessDenied", "\n", "\n", "Try running this tool with sudo.">>
  ELSE <<outcome>>

\* home.rs 257: EnterMode(Processing) is sent, then the action is awaited
SvcStart(i) ==
    /\ Running
    /\ Room(1)
    /\ svc[i].pc = "start"
    /\ queue' = send(queue, EnterMode("Processing"))
    /\ UNCHANGED app
    /\ svc' = [svc EXCEPT ![i].pc = "await", ![i].sent = Append(@, EnterMode("Processing"))]
    /\ UNCHANGED <<home, journalctl, sup, follow, deb, cancelled, refreshing, env>>

\* a match without the cancellation arm
cancel_arm_never(outcome, is_cancelled) == FALSE

\* home.rs 264: the guard of the cancellation arm
cancel_arm(outcome, is_cancelled) == outcome # "Ok" /\ is_cancelled

\* a match whose Ok arm sends nothing
match_result_ok_silent(outcome, is_cancelled) == IF outcome = "Ok" THEN <<>>
  ELSE IF outcome # "Ok" /\ is_cancelled THEN <<>>
  ELSE <<EnterError(error_string(outcome))>>

\* home.rs 258-277: action.await resolves and the result is matched
match_result(outcome, is_cancelled) == IF outcome = "Ok" THEN <<EnterMode("Normal")>>
  ELSE IF cancel_arm(outcome, is_cancelled) THEN <<>>
  ELSE <<EnterError(error_string(outcome))>>

SvcMatch(i) ==
    /\ Running
    /\ svc[i].pc = "await"
    /\ \E outcome \in Outcomes :
         LET acts == match_result(outcome, i \in cancelled)
         IN  /\ Room(Len(acts))
             /\ queue' = send_all(queue, acts)
             /\ svc' = [svc EXCEPT ![i].pc = "refresh",
                                   ![i].outcome = IF acts = <<>> THEN "Cancelled" ELSE acts[1].t,
                                   ![i].result = outcome,
                                   ![i].signalled = i \in cancelled,
                                   ![i].sent = @ \o acts]
    /\ UNCHANGED <<home, app, journalctl, sup, follow, deb, cancelled, refreshing, env>>

\* home.rs 278-285: the spinner is aborted and RefreshServices sent, then three
\* more times, one second apart
ExtraRefreshes == 3
RefreshCount == 1 + ExtraRefreshes

SvcRefresh(i) ==
    /\ Running
    /\ Room(1)
    /\ svc[i].pc = "refresh"
    /\ queue' = send(queue, Act("RefreshServices", None, None))
    /\ UNCHANGED app
    /\ svc' = [svc EXCEPT ![i].refreshes = @ + 1,
                          ![i].pc = IF svc[i].refreshes + 1 = RefreshCount THEN "done" ELSE "refresh",
                          ![i].spinner.aborted = TRUE,
                          ![i].sent = Append(@, Act("RefreshServices", None, None))]
    /\ UNCHANGED <<home, journalctl, sup, follow, deb, cancelled, refreshing, env>>

\* home.rs 545-548: get_services() returned the units and SetServices is sent
RefreshDone ==
    /\ Running
    /\ Room(1)
    /\ refreshing > 0
    /\ env.listings < MaxRefresh
    /\ \E units \in Listings :
         queue' = send(queue, SetServices(units))
    /\ UNCHANGED app
    /\ refreshing' = refreshing - 1
    /\ env' = [env EXCEPT !.listings = @ + 1]
    /\ UNCHANGED <<home, journalctl, sup, follow, deb, svc, cancelled>>

\* home.rs 545-547: get_services() failed and .expect() panics the task;
\* refresh_panicked records it
RefreshPanic ==
    /\ Running
    /\ refreshing > 0
    /\ refreshing' = refreshing - 1
    /\ env' = [env EXCEPT !.refresh_panicked = TRUE]
    /\ UNCHANGED <<home, queue, app, journalctl, sup, follow, deb, svc, cancelled>>

Executor == \E i \in 1..Len(svc) : SvcStart(i) \/ SvcMatch(i) \/ SvcRefresh(i)

\* home.rs 251: interval.tick().await returns in the spinner task.  abort()
\* (home.rs 278) cancels the task at this .await, not between it and the send.
SpinTick(i) ==
    /\ Running
    /\ svc[i].spinner.pc = "tick"
    /\ ~svc[i].spinner.aborted
    /\ env.ticks < MaxTicks
    /\ svc' = [svc EXCEPT ![i].spinner.pc = "send"]
    /\ env' = [env EXCEPT !.ticks = @ + 1]
    /\ UNCHANGED <<home, queue, app, journalctl, sup, follow, deb, cancelled, refreshing>>

\* home.rs 252: SpinnerTick is sent; late records a send after the task's first
\* RefreshServices
SpinSend(i) ==
    /\ Running
    /\ Room(1)
    /\ svc[i].spinner.pc = "send"
    /\ queue' = send(queue, Act("SpinnerTick", None, None))
    /\ svc' = [svc EXCEPT ![i].spinner.pc = "tick", ![i].spinner.late = svc[i].refreshes >= 1]
    /\ UNCHANGED <<home, app, journalctl, sup, follow, deb, cancelled, refreshing, env>>

Spinner == \E i \in 1..Len(svc) : SpinTick(i) \/ SpinSend(i)

Refresher == RefreshDone \/ RefreshPanic

(* ------------------------------------------------------------------ *)
(* Specifications                                                     *)
(* ------------------------------------------------------------------ *)

\* the keys of each scenario
NavigationKeys == {Key("Up", "", FALSE), Key("Down", "", FALSE)}
SearchKeys == {Key("Char", "/", FALSE), Key("Char", "b", FALSE), Key("Char", "C", FALSE),
    Key("Backspace", "", FALSE), Key("Esc", "", FALSE)}
MenuKeys == {Key("Enter", "", FALSE), Key("Esc", "", FALSE)}
ScrollKeys == {Key("PageDown", "", FALSE), Key("PageUp", "", FALSE), Key("Home", "", FALSE),
    Key("End", "", FALSE)}
LifecycleKeys == {Key("Char", "q", FALSE), Key("Char", "z", TRUE), Key("Char", "l", TRUE),
    Key("Char", "?", FALSE)}
AllKeys == NavigationKeys \cup SearchKeys \cup MenuKeys \cup ScrollKeys \cup LifecycleKeys

KeyEvent == \E key \in AllKeys : KeyEventOf(key, MaxKeys)

\* the whole program
Next == KeyEvent \/ RunLifecycle \/ RunDispatch \/ Supervisor \/ Follower
    \/ Executor \/ Refresher \/ SendDebouncedRender \/ Debouncer

\* render requests and the debounce task
NextDebounce == SendDebouncedRender \/ RunLifecycle \/ Debouncer

SpecDebounce == Init /\ [][NextDebounce]_vars

\* navigation and search, the journalctl thread and its follow tasks
LogKeys == NavigationKeys \cup {Key("Char", "/", FALSE), Key("Char", "C", FALSE)}
KeyEventLogs == \E key \in LogKeys : KeyEventOf(key, MaxLogKeys)
NextLogs == KeyEventLogs \/ RunLifecycle \/ RunDispatch \/ Supervisor \/ Follower

SpecLogs == Init /\ [][NextLogs]_vars

\* the action menu and the service-action tasks up to the match of their result
\* (home.rs 256-277); what they send after it is in SpecRefresh
ExecutorToMatch == \E i \in 1..Len(svc) : SvcStart(i) \/ SvcMatch(i)
KeyEventMenu == \E key \in MenuKeys : KeyEventOf(key, MaxMenuKeys)
NextService == KeyEventMenu \/ RunLifecycle \/ RunDispatch \/ ExecutorToMatch

InitService == Init /\ home.all_units = AllUnits

SpecService == InitService /\ [][NextService]_vars

\* one unit's action menu, the whole service-action task and its spinner task
KeyEventExec == \E key \in MenuKeys : KeyEventOf(key, MaxExecKeys)
NextExecutor == KeyEventExec \/ RunLifecycle \/ RunDispatch \/ Executor \/ Spinner

SpecExecutor == InitService /\ [][NextExecutor]_vars

\* the action menu, Esc, and the whole service-action tasks without their spinners
KeyEventFail == \E key \in MenuKeys : KeyEventOf(key, MaxFailKeys)
NextFailure == KeyEventFail \/ RunLifecycle \/ RunDispatch \/ Executor

SpecFailure == InitService /\ [][NextFailure]_vars

\* navigation, a service action and the refreshes after it
RefreshKeys == {Key("Down", "", FALSE), Key("Enter", "", FALSE)}
KeyEventRefresh == \E key \in RefreshKeys : KeyEventOf(key, MaxRefreshKeys)
NextRefresh == KeyEventRefresh \/ RunLifecycle \/ RunDispatch \/ Executor \/ Refresher

SpecRefresh == Init /\ [][NextRefresh]_vars

\* Home alone: key events, and the actions the background tasks send to the loop,
\* in any order
TaskActions == {SetServices(units) : units \in Listings}
    \cup {SetLogs(u, <<u>>) : u \in UnitNames} \cup {AppendLogLine(u, u) : u \in UnitNames}

TaskSends ==
    /\ Running
    /\ Room(1)
    /\ env.sent < MaxSent
    /\ \E a \in TaskActions :
         queue' = send(queue, a)
    /\ env' = [env EXCEPT !.sent = @ + 1]
    /\ UNCHANGED <<home, app, journalctl, sup, follow, deb, svc, cancelled, refreshing>>

HomeKeys == {Key("Up", "", FALSE), Key("Down", "", FALSE), Key("Char", "/", FALSE), Key("Char", "b", FALSE),
    Key("Char", "C", FALSE)}
KeyEventHome == \E key \in HomeKeys : KeyEventOf(key, MaxKeys)
NextHome == KeyEventHome \/ TaskSends \/ RunLifecycle \/ RunDispatch

SpecHome == Init /\ [][NextHome]_vars

\* the action menu opened from any listing, with and without a selected unit
OpenMenuKeys == MenuKeys \cup {Key("Down", "", FALSE), Key("Char", "/", FALSE), Key("Char", "C", FALSE)}
KeyEventOpenMenu == \E key \in OpenMenuKeys : KeyEventOf(key, MaxMenuKeys)
NextMenu == KeyEventOpenMenu \/ RunLifecycle \/ RunDispatch

SpecMenu == Init /\ [][NextMenu]_vars

\* the u16 amounts and offsets at both ends of the range
ScrollAmounts == (0..MaxScroll) \cup ((U16Max - MaxScroll)..U16Max)

\* a producer of Action::ScrollUp(u16) and Action::ScrollDown(u16) with any amount
ScrollSends ==
    /\ Running
    /\ Room(1)
    /\ env.sent < MaxSent
    /\ \E n \in ScrollAmounts :
         queue' = send(queue, ScrollUp(n)) \/ queue' = send(queue, ScrollDown(n))
    /\ env' = [env EXCEPT !.sent = @ + 1]
    /\ UNCHANGED <<home, app, journalctl, sup, follow, deb, svc, cancelled, refreshing>>

\* scrolling of the log pane by keys and by scroll actions of any amount
KeyEventScroll == \E key \in ScrollKeys : KeyEventOf(key, MaxKeys)
NextScroll == KeyEventScroll \/ ScrollSends \/ RunLifecycle \/ RunDispatch

SpecScroll == Init /\ [][NextScroll]_vars

\* the next unit selected, the journalctl thread and its follow tasks, each of which runs
\* whenever it can: the loop at recv().await (app.rs 70), the thread of
\* spawn_blocking (home.rs 297) and the tasks of tokio::spawn (home.rs 335)
KeyEventLatest == KeyEventOf(Key("Down", "", FALSE), MaxLatestKeys)
NextLatest == KeyEventLatest \/ RunLifecycle \/ RunDispatch \/ Supervisor \/ Follower

SpecLatest == InitService /\ [][NextLatest]_vars /\ WF_vars(RunLifecycle \/ RunDispatch)
    /\ WF_vars(Supervisor) /\ WF_vars(Follower)

\* two service actions started from one action menu, and Esc while they run
KeyEventOverlap == \E key \in MenuKeys : KeyEventOf(key, MaxOverlapKeys)
NextOverlap == KeyEventOverlap \/ RunLifecycle \/ RunDispatch \/ Executor

SpecOverlap == InitService /\ [][NextOverlap]_vars

\* search input and scrolling, with the listings and logs the background tasks
\* send in any order
KeepKeys == {Key("Char", "/", FALSE), Key("Char", "b", FALSE), Key("PageDown", "", FALSE)}
KeyEventKeep == \E key \in KeepKeys : KeyEventOf(key, MaxKeepKeys)
NextKeep == KeyEventKeep \/ TaskSends \/ RunLifecycle \/ RunDispatch

SpecKeep == InitService /\ [][NextKeep]_vars

\* the lengths of the log buffer at both ends of the u16 range
LogLengths == {0, 1, U16Max, U16Max + 1, U16Max + 2}

\* the program with the first unit selected and n lines of it in the log buffer
\* (the lines of SetLogs and of the AppendLogLine dispatched since, home.rs 504-518)
InitBottom == \E n \in LogLengths :
    /\ home = [InitWorld(AllUnits).h EXCEPT !.logs = [k \in 1..n |-> UnitA]]
    /\ journalctl = <<>>
    /\ InitTasks

\* scrolling of a log buffer of any length
KeyEventBottom == \E key \in ScrollKeys : KeyEventOf(key, MaxKeys)
NextBottom == KeyEventBottom \/ RunLifecycle \/ RunDispatch

SpecBottom == InitBottom /\ [][NextBottom]_vars

\* quit and suspend: the loop runs whenever the queue holds an action
\* (action_rx.recv().await, app.rs 70)
QuitKeys == {Key("Char", "q", FALSE), Key("Char", "z", TRUE), Key("Char", "?", FALSE),
    Key("Down", "", FALSE)}
KeyEventQuit == \E key \in QuitKeys : KeyEventOf(key, MaxQuitKeys)
NextLifecycle == KeyEventQuit \/ RunLifecycle \/ RunDispatch

SpecLifecycle == Init /\ [][NextLifecycle]_vars /\ WF_vars(RunLifecycle \/ RunDispatch)

Spec == Init /\ [][Next]_vars

(* ------------------------------------------------------------------ *)
(* Properties                                                         *)
(* ------------------------------------------------------------------ *)

\* a step of the dispatch loop: no task, timer or driver moved, and nothing was
\* delivered by the environment
LoopStep ==
    /\ queue # <<>>
    /\ env' = env /\ sup' = sup /\ follow' = follow
    /\ [deb EXCEPT !.rx = 0, !.owed = FALSE]' = [deb EXCEPT !.rx = 0, !.owed = FALSE]
    /\ deb'.rx >= deb.rx
    /\ refreshing' >= refreshing
    /\ Len(svc') >= Len(svc)
    /\ \A i \in 1..Len(svc) : /\ svc'[i].pc = svc[i].pc
                               /\ svc'[i].refreshes = svc[i].refreshes
                               /\ svc'[i].spinner = svc[i].spinner
    /\ queue' # queue

\* C1: of the N >= 1 render requests that reach the debounce task from the one
\* that starts a timer until that timer expires, exactly one Render comes out:
\* never a second one, and one once the timer has expired.
DebounceOneRender ==
    /\ deb.burst_renders <= 1
    /\ (deb.burst >= 1 /\ deb.pc \notin {"set", "spawn"} /\ deb.sleeping = 0) => deb.burst_renders = 1

\* C1: three requests arrived before the timer expired and one Render was sent
DebounceBurstRendered == deb.burst = 3 /\ deb.burst_renders = 1 /\ deb.sleeping = 0


\* C2: once the batch fetch for a request for another unit has begun, a follow
\* task of the superseded unit sends no AppendLogLine any more.
NoAppendAfterSupersession == \A i \in 1..Len(follow) : ~follow[i].late

\* the head of the action queue is a SetLogs or AppendLogLine whose unit is not
\* the selected unit (or no unit is selected)
StaleLogsAtHead ==
    /\ queue # <<>>
    /\ Head(queue).t \in {"SetLogs", "AppendLogLine"}
    /\ selected_service(home) # Some(Head(queue).unit)

\* C3: the dispatch of a SetLogs or AppendLogLine whose unit is not the selected
\* unit leaves the log buffer and every other field of Home unchanged, and asks
\* for no logs.
StaleLogsIgnored == [][(LoopStep /\ StaleLogsAtHead) => (home' = home /\ journalctl' = journalctl)]_vars

\* C3: a line of a unit that is no longer selected is about to be dispatched
\* while the buffer holds the selected unit's logs
StaleLineOverFilledBuffer == StaleLogsAtHead /\ Head(queue).t = "AppendLogLine" /\ home.logs # <<>>

\* C6: at every moment at most one follow task can still run.
OneFollowActive == Cardinality({i \in 1..Len(follow) : ~stopped(follow[i])}) <= 1

\* C8: every line of the log buffer comes from the selected unit (the buffer is
\* empty when none is selected), and a step that changes the selection leaves
\* the buffer empty.
LogsOfSelectedUnit ==
    /\ [](\A k \in 1..Len(home.logs) : selected_service(home) = Some(home.logs[k]))
    /\ [][selected_service(home') # selected_service(home) => home'.logs = <<>>]_vars

\* C8: the selection moved from the first unit to UnitB and UnitB's logs arrived
LogsOfSecondUnit ==
    /\ home.all_units = AllUnits
    /\ selected_service(home) = Some(UnitB)
    /\ home.logs # <<>>


\* C5: the dispatch of SetServices(units) stores the units, shows those the
\* current search value matches, and keeps the previously selected unit selected
\* if it is among them; otherwise the first shown unit is selected, or none if
\* nothing is shown.
SelectionKept == [][(LoopStep /\ Head(queue).t = "SetServices") =>
    LET units == Head(queue).p
        shown == matching_units(units, home.input)
        prev == selected_service(home)
    IN  /\ home'.all_units = units
        /\ home'.input = home.input
        /\ home'.items = shown
        /\ selected_service(home') =
             IF prev # None /\ \E k \in 1..Len(shown) : shown[k] = prev[1] THEN prev
             ELSE IF shown # <<>> THEN Some(shown[1])
             ELSE None]_vars

\* C5: a new listing arrived while a search value was typed: the listing is
\* filtered and UnitB, selected before at index 0, is selected at its new index
SelectionKeptUnderFilter ==
    /\ home.all_units = AllUnits
    /\ home.input = <<"b">>
    /\ home.items = <<UnitA, UnitB>>
    /\ home.state = Some(1)
    /\ env.keys = 2 /\ env.sent = 1


\* a step of the event task: one key event went through Home::handle_key_events
KeyStep == env'.keys = env.keys + 1

Appended(a) ==
    (IF a.t \in LifecycleTypes \/ dispatch(World, a).ret = None
     THEN <<>> ELSE <<dispatch(World, a).ret[1]>>)
    \o (IF app'.should_suspend THEN <<Act("Resume", None, None), Render>> ELSE <<>>)

\* C10: the loop always takes the oldest action of the queue, hands it (unless it
\* is a lifecycle action) to Home::dispatch, and appends the follow-up behind
\* the actions already waiting; every other step only appends to the queue.
FifoDispatch == [][
    /\ LoopStep => /\ queue' = Tail(queue) \o Appended(Head(queue))
                   /\ home' = IF Head(queue).t \in LifecycleTypes THEN home
                              ELSE dispatch(World, Head(queue)).w.h
    /\ ~LoopStep => /\ Len(queue') >= Len(queue)
                    /\ SubSeq(queue', 1, Len(queue)) = queue]_vars

\* C10: an action with a follow-up is the oldest and another action waits behind
\* it, so the follow-up has to go behind that one
FollowUpBehindWaiting ==
    /\ Len(queue) >= 2
    /\ Head(queue).t \notin LifecycleTypes
    /\ dispatch(World, Head(queue)).ret # None
    /\ queue[2] # dispatch(World, Head(queue)).ret[1]


\* C4 as claimed: a service action that was running when CancelTask was
\* dispatched never sends EnterError.
CancelSuppressesError == \A i \in 1..Len(svc) :
    svc[i].cancel_seen # "no" => svc[i].outcome # "EnterError"

\* C4: a service action whose own token CancelTask signalled while it was running
\* never sends EnterError; and the dispatch of CancelTask signals the stored
\* token, clears it and sets the mode to Normal.
CancelOfStoredAction ==
    /\ [](\A i \in 1..Len(svc) : svc[i].cancel_seen = "own" => svc[i].outcome # "EnterError")
    /\ [][(LoopStep /\ Head(queue).t = "CancelTask") =>
            /\ home'.mode = "Normal"
            /\ home'.cancel_token = None
            /\ home.cancel_token # None => home.cancel_token[1] \in cancelled']_vars

\* C4: a running action was cancelled, then failed, and sent nothing
CancelledActionFailedSilently == \E i \in 1..Len(svc) :
    /\ svc[i].cancel_seen = "own"
    /\ svc[i].outcome = "Cancelled"
    /\ home.mode = "Normal"

\* Action::StartService, StopService and RestartService
IsServiceAction(a) == a.t \in {"StartService", "StopService", "RestartService"}

\* C7: the stored token is always that of the most recently started service
\* action: starting an action stores a fresh token in place of the old one and
\* signals nothing, and only the dispatch of CancelTask signals a token, which is
\* the token of the most recently started action.
OneCancelHandle ==
    /\ [](home.cancel_token \in {None, Some(Len(svc))})
    /\ [][(LoopStep /\ IsServiceAction(Head(queue))) =>
            /\ Len(svc') = Len(svc) + 1
            /\ home'.cancel_token = Some(Len(svc'))
            /\ cancelled' = cancelled]_vars
    /\ [][cancelled' # cancelled =>
            /\ LoopStep /\ Head(queue).t = "CancelTask"
            /\ cancelled' = cancelled \cup {Len(svc)}]_vars

\* C7: two actions were started, CancelTask signalled the second one's token and
\* the first is still running, unsignalled
OnlyLatestSignalled ==
    /\ Len(svc) = 2
    /\ svc[1].pc = "await"
    /\ cancelled = {2}


\* s is an initial part of t
IsPrefix(s, t) == Len(s) <= Len(t) /\ SubSeq(t, 1, Len(s)) = s

\* what the task of a succeeding service action sends, in order
SuccessSequence == <<EnterMode("Processing"), EnterMode("Normal")>>
    \o [k \in 1..4 |-> Act("RefreshServices", None, None)]

\* C11: a service-action task whose operation succeeds sends EnterMode(Processing),
\* EnterMode(Normal) and then RefreshServices four times, in this order and
\* nothing else; and while it is the only task and no further key is pressed the
\* mode goes from ActionMenu to Processing and from Processing to Normal only.
SuccessOrder ==
    /\ [](\A i \in 1..Len(svc) : svc[i].result \in {"Pending", "Ok"} =>
            /\ IsPrefix(svc[i].sent, SuccessSequence)
            /\ svc[i].pc = "done" => svc[i].sent = SuccessSequence)
    /\ [][(/\ Len(svc') = 1
           /\ svc'[1].result \in {"Pending", "Ok"}
           /\ env'.keys = 2
           /\ home'.mode # home.mode)
          => <<home.mode, home'.mode>> \in {<<"ActionMenu", "Processing">>,
                                            <<"Processing", "Normal">>}]_vars

\* C11: a succeeded action has sent everything, all of it has been handled, and
\* the mode is Normal
SuccessHandled ==
    /\ Len(svc) = 1
    /\ svc[1].result = "Ok"
    /\ svc[1].pc = "done"
    /\ queue = <<>>
    /\ home.mode = "Normal"

\* C12: the spinner task of a service action sends no SpinnerTick after the
\* action's task has sent its first RefreshServices.
NoTickAfterRefresh == \A i \in 1..Len(svc) : ~svc[i].spinner.late


\* the message of a failed operation as the user is to see it
FailureMessage(result) == IF result = "AccessDenied"
  THEN <<"AccessDenied", "\n", "\n", "Try running this tool with sudo.">>
  ELSE <<result>>

\* what the task of a failed service action sends, in order, when its token was
\* not signalled, and when it was
FailureSequence(result) == <<EnterMode("Processing"), EnterError(FailureMessage(result))>>
    \o [k \in 1..4 |-> Act("RefreshServices", None, None)]
CancelledSequence == <<EnterMode("Processing")>> \o [k \in 1..4 |-> Act("RefreshServices", None, None)]

\* C13: a service-action task whose operation failed sends, if its token was not
\* signalled when the result was matched, exactly one EnterError with the
\* failure message, after EnterMode(Processing) and before its first
\* RefreshServices, and no EnterMode(Normal); if the token was signalled it
\* sends neither EnterError nor EnterMode(Normal).
FailureReported == \A i \in 1..Len(svc) : svc[i].result \in {"Failed", "AccessDenied"} =>
    LET expected == IF svc[i].signalled THEN CancelledSequence ELSE FailureSequence(svc[i].result)
    IN  /\ IsPrefix(svc[i].sent, expected)
        /\ Len(svc[i].sent) >= (IF svc[i].signalled THEN 1 ELSE 2)
        /\ svc[i].pc = "done" => svc[i].sent = expected

\* C13: an operation failed with AccessDenied, its token unsignalled; the task
\* has sent everything and the error with the hint is on display
AccessDeniedReported == \E i \in 1..Len(svc) :
    /\ svc[i].result = "AccessDenied"
    /\ ~svc[i].signalled
    /\ svc[i].pc = "done"
    /\ home.mode = "Error"
    /\ home.error_message = FailureMessage("AccessDenied")


\* C14 as claimed: once EnterError is handled the stored message is its message
\* and the mode is Error.
ErrorForcesMode == [][(LoopStep /\ Head(queue).t = "EnterError") =>
    /\ home'.error_message = Head(queue).p
    /\ home'.mode = "Error"]_vars

\* C14: the dispatch of EnterError stores the message, leaves the mode as it is
\* and puts EnterMode(Error) at the tail of the queue; the dispatch of
\* EnterMode(Error) sets the mode to Error whatever it was.
ErrorStoredThenMode == [][
    /\ (LoopStep /\ Head(queue).t = "EnterError") =>
          /\ home'.error_message = Head(queue).p
          /\ home'.mode = home.mode
          /\ queue' = Append(Tail(queue), EnterMode("Error"))
    /\ (LoopStep /\ Head(queue) = EnterMode("Error")) => home'.mode = "Error"]_vars

\* C14: the message of a failed operation is stored and the mode is Error
ErrorOnDisplay == home.mode = "Error" /\ home.error_message = <<"Failed">>


\* C15: a request replaced while draining is dropped in a step that changes only
\* the unit name, which becomes the newer request's, and touches neither the
\* queue nor the follow tasks; the batch fetch begins only after the channel was
\* found empty, so for the last request taken; from then on the round keeps that
\* unit, and what it sends (SetLogs) and starts (one follow task, whose
\* AppendLogLine carry its unit) is for that unit.
MostRecentWins == [][
    /\ (sup.pc = "drain" /\ sup'.pc = "drain" /\ sup' # sup) =>
         /\ sup'.unit_name = Some(Head(journalctl))
         /\ sup'.dropped = Append(sup.dropped, sup.unit_name[1])
         /\ journalctl' = Tail(journalctl)
         /\ queue' = queue /\ follow' = follow /\ home' = home
    /\ (sup.pc = "drain" /\ sup'.pc # "drain") =>
         /\ journalctl = <<>>
         /\ sup'.pc = "fetch"
         /\ sup'.unit_name = sup.unit_name
         /\ queue' = queue
    /\ (sup.pc \notin {"recv", "drain"}) => sup'.unit_name = sup.unit_name
    /\ (sup' # sup /\ queue' # queue) =>
         \/ /\ sup.pc = "fetching"
            /\ Len(queue') = Len(queue) + 1
            /\ SubSeq(queue', 1, Len(queue)) = queue
            /\ queue'[Len(queue')].t = "SetLogs"
            /\ queue'[Len(queue')].unit = sup.unit_name[1]
         \/ sup.pc = "render" /\ queue' = Append(queue, Render)
    /\ (Len(follow') # Len(follow)) =>
         /\ sup.pc = "spawn"
         /\ follow' = Append(follow, follow'[Len(follow')])
         /\ follow'[Len(follow')].unit = sup.unit_name[1]
    /\ \A i \in 1..Len(follow) :
         (follow'[i].pc # follow[i].pc /\ queue' # queue) =>
           \/ queue' = Append(queue, AppendLogLine(follow[i].unit, follow[i].unit))
           \/ queue' = Append(queue, Render)]_vars

\* C15: the round dropped the request for cd.service in favour of the one for
\* ab.service, sent the logs of ab.service and is about to start its follow task
DroppedRequestSkipped ==
    /\ sup.pc = "spawn"
    /\ sup.dropped # <<>>
    /\ sup.unit_name # Some(sup.dropped[1])
    /\ ~sup.fetch_failed
    /\ \A i \in 1..Len(follow) : follow[i].unit # sup.dropped[1]

\* C20: the step in which the batch fetch fails sends nothing, changes nothing of
\* Home and goes on, with the same unit, to the start of the follow task; that
\* start appends the task and takes the supervisor back to recv() for the next
\* request.
FetchFailureTolerated ==
    /\ [](sup.fetch_failed => sup.pc = "spawn")
    /\ [][/\ (sup.pc = "fetching" /\ sup' # sup /\ queue' = queue) =>
               /\ sup'.pc = "spawn"
               /\ sup'.fetch_failed
               /\ sup'.unit_name = sup.unit_name
               /\ home' = home /\ follow' = follow
          /\ (sup.pc = "spawn" /\ sup' # sup) =>
               /\ follow' = Append(follow, [unit |-> sup.unit_name[1], pc |-> "await",
                                            aborted |-> FALSE, superseded |-> FALSE,
                                            late |-> FALSE])
               /\ sup'.pc = "recv"
               /\ sup'.last_follow_handle = Some(Len(follow'))
               /\ queue' = queue
          /\ (sup.pc = "recv" /\ sup' # sup) =>
               /\ sup'.pc = "drain"
               /\ sup'.unit_name = Some(Head(journalctl))
               /\ journalctl' = Tail(journalctl)]_vars

\* C20: the batch fetch of the second request failed after the first request's
\* round was served; its follow task is about to start and a third request waits
LaterRequestAfterFailure ==
    /\ sup.fetch_failed
    /\ sup.pc = "spawn"
    /\ Len(follow) = 1
    /\ journalctl # <<>>


\* C16: once Quit has been dequeued (should_quit is set) the loop eventually
\* takes its quit branch, stops the drivers and returns, also when should_suspend
\* was set at that moment; and it has returned only after a Quit was dequeued.
QuitReturns ==
    /\ app.should_quit ~> app.done
    /\ [](app.done => app.should_quit /\ ~app.should_suspend)

\* C16: Quit was dequeued while the program was suspended, and the Resume of
\* the suspension is still in the queue
QuitWhileSuspended ==
    /\ app.should_quit /\ app.should_suspend /\ ~app.done
    /\ \E i \in 1..Len(queue) : queue[i].t = "Resume"


\* C17: at most one timer task exists at any moment, counting the one about to
\* be spawned, the sleeping ones and the ones that sent Render and have not yet
\* reset the flag; and the flag is set as long as one exists.
OneTimerPending ==
    /\ deb.sleeping + deb.clearing + (IF deb.pc = "spawn" THEN 1 ELSE 0) <= 1
    /\ (deb.sleeping + deb.clearing >= 1 \/ deb.pc = "spawn") => deb.debouncing

\* C17: a second request reached the debounce task while the timer was pending
\* and was dropped; the one timer is still pending
RequestDroppedWhilePending ==
    /\ deb.burst >= 2
    /\ deb.sleeping = 1
    /\ deb.pc = "recv"


\* C18: the dispatch of EnterMode(ActionMenu) with no unit selected changes
\* nothing of Home and appends no follow-up; with a unit selected it rebuilds the
\* menu as Start, Stop, Restart of that unit, selects the first entry, sets the
\* mode to ActionMenu and appends Render.
ActionMenuNeedsUnit == [][(LoopStep /\ Head(queue) = EnterMode("ActionMenu")) =>
    IF selected_service(home) = None
    THEN /\ home' = home
         /\ queue' = Tail(queue)
         /\ svc' = svc /\ journalctl' = journalctl
    ELSE /\ home'.menu_items = <<StartService(selected_service(home)[1]),
                                 StopService(selected_service(home)[1]),
                                 RestartService(selected_service(home)[1])>>
         /\ home'.menu_state = Some(0)
         /\ home'.mode = "ActionMenu"
         /\ home' = [home EXCEPT !.menu_items = home'.menu_items,
                                 !.menu_state = Some(0), !.mode = "ActionMenu"]
         /\ queue' = Append(Tail(queue), Render)]_vars

\* C18: EnterMode(ActionMenu) is the next action of the loop and no unit is
\* selected
MenuRefused ==
    /\ queue = <<EnterMode("ActionMenu")>>
    /\ selected_service(home) = None
    /\ home.mode = "Normal"


\* C19: the dispatch of ScrollUp(n) sets the scroll offset to max(offset - n, 0)
\* and changes nothing else, for offsets and amounts at both ends of the u16
\* range; the offset stays within 0..65535.
ScrollUpSaturates ==
    /\ [](home.logs_scroll_offset \in 0..U16Max)
    /\ [][(LoopStep /\ Head(queue).t = "ScrollUp") =>
            LET n == Head(queue).p[1]
                d == home.logs_scroll_offset - n
            IN  /\ home' = [home EXCEPT !.logs_scroll_offset = IF d > 0 THEN d ELSE 0]
                /\ queue' = Tail(queue)]_vars

\* C19: ScrollUp by more than the offset is the next action, at an offset above 0
ScrollUpBelowZero ==
    /\ queue # <<>>
    /\ Head(queue).t = "ScrollUp"
    /\ home.logs_scroll_offset > 0
    /\ Head(queue).p[1] > home.logs_scroll_offset


\* the unit of the last request sent to the journalctl thread: the newest one
\* waiting in the channel, else the one the thread took last
LastRequest == IF journalctl # <<>> THEN Some(journalctl[Len(journalctl)]) ELSE sup.unit_name

\* the follow tasks that have not ended
RunningFollows == {i \in 1..Len(follow) : ~stopped(follow[i])}

\* every request was taken, and the one follow task that runs is the newest one
\* and follows the unit of the last request
LatestServed ==
    /\ journalctl = <<>>
    /\ sup.pc = "recv"
    /\ sup.unit_name # None =>
         /\ RunningFollows = {Len(follow)}
         /\ follow[Len(follow)].unit = LastRequest[1]
         /\ sup.last_follow_handle = Some(Len(follow))

\* C21: with the requests coming to an end, from some moment on the one follow
\* task running is that of the last request's unit; the follow task of a round
\* is started only after the round's batch fetch, which if it succeeded has sent
\* SetLogs for the unit before the task exists.
LatestRequestServed ==
    /\ <>[]LatestServed
    /\ [][/\ (sup.pc = "fetching" /\ sup'.pc = "render") =>
               /\ Len(queue') = Len(queue) + 1
               /\ queue'[Len(queue')].t = "SetLogs"
               /\ queue'[Len(queue')].unit = sup.unit_name[1]
               /\ follow' = follow
          /\ (sup.pc # "spawn" /\ sup'.pc = "spawn") =>
               \/ sup.pc = "render" /\ ~sup'.fetch_failed
               \/ sup.pc = "fetching" /\ sup'.fetch_failed
          /\ (Len(follow') # Len(follow)) =>
               /\ sup.pc = "spawn"
               /\ follow'[Len(follow')].unit = sup.unit_name[1]
               /\ follow'[Len(follow')].pc = "await"]_vars

\* C21: requests were sent for more than one unit; the follow task of the first
\* was aborted and has ended, and the one of the last request's unit runs
LatestOfThreeServed ==
    /\ LatestServed
    /\ Len(follow) >= 2
    /\ follow[1].unit # follow[Len(follow)].unit
    /\ stopped(follow[1])
    /\ env.keys = MaxLatestKeys


\* C22 as claimed: the suspend branch (drivers stopped, awaited and restarted,
\* Resume and Render injected) runs once for each dequeued Suspend, so only in
\* the iteration that dequeued a Suspend.
OneCyclePerSuspend == [][(LoopStep /\ app'.should_suspend) => Head(queue).t = "Suspend"]_vars


\* C23 as claimed: no task started by RefreshServices panics when the unit
\* listing fails.
RefreshFailureNoPanic == ~env.refresh_panicked


\* a Render is on its way: in the queue, or due from a request the debounce task
\* has not decided yet, or from a timer that has not expired
RenderPending ==
    \/ \E i \in 1..Len(queue) : queue[i].t \in {"Render", "DebouncedRender"}
    \/ deb.rx > 0
    \/ deb.pc # "recv"
    \/ deb.sleeping > 0

\* C24 as claimed: a DebouncedRender the loop handled is followed by the dispatch
\* of a Render; deb.owed is set from the handling of a DebouncedRender to the
\* next dispatch of a Render, and while it is set a Render is on its way.
NoRenderRequestLost == deb.owed => RenderPending


\* every service action that was started has completed, and every action in the
\* queue has been dispatched
ServiceActionsSettled ==
    /\ svc # <<>>
    /\ \A i \in 1..Len(svc) : svc[i].pc = "done"
    /\ queue = <<>>

\* C25 as claimed: once the service actions have completed and their actions
\* have been dispatched, the mode is not Processing.
ProcessingEnds == ServiceActionsSettled => home.mode # "Processing"


\* C26 as claimed: the selected index of the filtered list is none or smaller
\* than the number of filtered items.
SelectedIndexValid == home.state = None \/ home.state[1] < Len(home.items)


\* the dispatch of SetServices, or a key that changes the search input
ListRefiltered ==
    \/ LoopStep /\ Head(queue).t = "SetServices"
    \/ KeyStep /\ home'.input # home.input

\* C27: when the list is filtered again, by SetServices or by a change of the
\* search input, and the unit that was selected is still the selected one, then
\* the log buffer and the scroll offset are as before and no request is sent to
\* the journalctl thread.
KeptSelectionKeepsLogs == [][
    (ListRefiltered /\ selected_service(home) # None
       /\ selected_service(home') = selected_service(home)) =>
         /\ home'.logs = home.logs
         /\ home'.logs_scroll_offset = home.logs_scroll_offset
         /\ journalctl' = journalctl]_vars

\* C27: a SetServices with another listing that still holds the selected unit
\* is the next action, with logs in the buffer and the pane scrolled
RefreshOverScrolledLogs ==
    /\ queue # <<>>
    /\ Head(queue).t = "SetServices"
    /\ Head(queue).p # home.all_units
    /\ selected_service(home) # None
    /\ position(matching_units(Head(queue).p, home.input), selected_service(home)[1]) # None
    /\ home.logs # <<>>
    /\ home.logs_scroll_offset > 0


\* C28 as claimed: the dispatch of ScrollToBottom sets the scroll offset to the
\* number of lines in the log buffer, whatever that number is.
ScrollToBottomIsLength == [][(LoopStep /\ Head(queue).t = "ScrollToBottom") =>
    home'.logs_scroll_offset = Len(home.logs)]_vars

====
